---- MODULE Spec2Model ----
(***************************************************************************)
(* The rsvpContract event registry (Sway contract, src/README.md lines     *)
(* 151-238) as a state machine.  One action per ABI method; each call is   *)
(* one transaction: it commits in full or reverts in full.                 *)
(*                                                                         *)
(* Platform semantics the contract relies on:                              *)
(*  - StorageMap.get of a key that was never inserted reads unset storage  *)
(*    slots, which the VM returns as zero: the all-zero Event.             *)
(*  - require(c, e) reverts the transaction when c is false.               *)
(*  - msg_sender() is Err when the transaction's inputs do not resolve to  *)
(*    one owner; unwrap() of an Err reverts.                               *)
(*  - transfer reverts when the VM cannot produce the output (no free      *)
(*    variable output, recipient contract not among the inputs).           *)
(*  - u64 arithmetic panics (reverts) on overflow.  The width of the event  *)
(*    counter is scaled down to the bound MaxEvents, so that the overflow  *)
(*    of `storage.event_id_counter += 1` is a case the model reaches; the  *)
(*    rsvp count stays below its width within the bounds.                  *)
(***************************************************************************)
EXTENDS Integers, FiniteSets, Sequences, TLC

\* ---------------------------------------------------------------- bounds
MaxEvents == 2
MaxRsvps == 2
InitBalance == 2
MaxHandlers == 2

\* ------------------------------------------------------------ input sets
Identities == {"alice", "bob"}
Unresolved == "unresolved"
Senders == Identities \cup {Unresolved}
ZeroIdentity == "zero"
ContractSelf == "contract"
Holders == Identities \cup {ZeroIdentity, ContractSelf}

BASE_ASSET_ID == "base"
Assets == {BASE_ASSET_ID, "other"}

EventIds == 0..MaxEvents
Capacities == {1}
Deposits == {0, 1}
Amounts == {0, 1, 2}
Names == {"Meetup"}
ZeroName == ""

ErrNone == "none"
ErrAuth == "AuthError"
ErrInvalidEventID == "InvalidEventID"
ErrIncorrectAssetId == "IncorrectAssetId"
ErrNotEnoughTokens == "NotEnoughTokens"
ErrTransferFailed == "TransferFailed"
ErrOverflow == "ArithmeticOverflow"

\* The largest value event_id_counter can hold (u64::MAX, scaled to the bound).
CounterMax == MaxEvents

\* ----------------------------------------------------------------- state
VARIABLES
    events,             \* storage.events: written keys -> Event
    event_id_counter,   \* storage.event_id_counter
    balances,           \* base-asset balance of every holder
    created,            \* history: number of create_event calls that committed
    rsvps,              \* history: number of rsvp calls that committed
    committed,          \* history: per key, rsvp calls committed on the record
                        \* stored there (since create_event last wrote the key)
    last,               \* the call whose result is being returned: inputs, error, value
    paid,               \* history: per key, total transferred to the owner of the
                        \* record stored there by rsvp calls on it (SpecPaid)
    loading,            \* the client's `loading` state (SpecClient)
    handlers            \* the client's handler invocations in flight (SpecClient)

vars == <<events, event_id_counter, balances, created, rsvps, committed, last,
          paid, loading, handlers>>

\* The Event a read of unset storage yields.
ZeroEvent ==
    [unique_id |-> 0, max_capacity |-> 0, deposit |-> 0, owner |-> ZeroIdentity,
     name |-> ZeroName, num_of_rsvps |-> 0]

\* storage.events.get(key) on map m
StorageGet(m, key) == IF key \in DOMAIN m THEN m[key] ELSE ZeroEvent

\* storage.events.insert(key, ev) on map m
StorageInsert(m, key, ev) ==
    [k \in (DOMAIN m) \cup {key} |-> IF k = key THEN ev ELSE m[k]]

\* A handler slot of the client with no invocation in flight.
NoHandler ==
    [fn |-> "none", pc |-> "none", eventId |-> 0, requiredAmountToRSVP |-> << >>]

NoCall ==
    [op |-> "none", sender |-> Unresolved, event_id |-> 0, asset_id |-> BASE_ASSET_ID,
     amount |-> 0, capacity |-> 0, price |-> 0, name |-> ZeroName,
     err |-> ErrNone, ret |-> ZeroEvent]

Init ==
    /\ events = << >>
    /\ event_id_counter = 0
    /\ balances = [h \in Holders |-> IF h \in Identities THEN InitBalance ELSE 0]
    /\ created = 0
    /\ rsvps = 0
    /\ committed = [k \in EventIds |-> 0]
    /\ last = NoCall
    /\ paid = [k \in EventIds |-> 0]
    /\ loading = FALSE
    /\ handlers = [h \in 1..MaxHandlers |-> NoHandler]

\* Calls are serialized transactions: a call starts when the previous call's
\* result has been taken by its caller.
Idle == last = NoCall

\* ----------------------------------------------------------- create_event
\* msg_sender().unwrap(): succeeds exactly when the sender resolves.
SenderResolves(sender) == sender # Unresolved

NewEvent_swapped(campaign_id, capacity, price, sender, event_name) ==
    [unique_id |-> campaign_id, max_capacity |-> price, deposit |-> capacity,
     owner |-> sender, name |-> event_name, num_of_rsvps |-> 0]

\* let new_event = Event { ... }
NewEvent(campaign_id, capacity, price, sender, event_name) ==
    [unique_id |-> campaign_id, max_capacity |-> capacity, deposit |-> price,
     owner |-> sender, name |-> event_name, num_of_rsvps |-> 0]

CounterAfterCreate_stuck(counter) == counter

\* storage.event_id_counter += 1
CounterAfterCreate(counter) == counter + 1

CreatedKey_off(counter) == counter

\* the key create_event reads back: storage.event_id_counter - 1
CreatedKey(counter) == counter - 1

CampaignId_prev(counter) == IF counter = 0 THEN 0 ELSE counter - 1

\* let campaign_id = storage.event_id_counter
CampaignId(counter) == counter

CreateEventError_early(sender, counter) ==
    IF ~SenderResolves(sender) THEN ErrAuth
    ELSE IF counter + 1 >= CounterMax THEN ErrOverflow
    ELSE ErrNone

\* create_event reverts when msg_sender().unwrap() does, and when the
\* counter's increment overflows.
CreateEventError(sender, counter) ==
    IF ~SenderResolves(sender) THEN ErrAuth
    ELSE IF counter = CounterMax THEN ErrOverflow
    ELSE ErrNone

create_event(sender, capacity, price, event_name) ==
    LET campaign_id == CampaignId(event_id_counter)
        err == CreateEventError(sender, event_id_counter)
        inserted == StorageInsert(events, campaign_id,
                        NewEvent(campaign_id, capacity, price, sender, event_name))
        counter2 == CounterAfterCreate(event_id_counter)
        call == [NoCall EXCEPT !.op = "create_event", !.sender = sender,
                    !.capacity = capacity, !.price = price, !.name = event_name]
    IN  /\ Idle
        /\ IF err = ErrNone
           THEN /\ event_id_counter < MaxEvents
                /\ events' = inserted
                /\ event_id_counter' = counter2
                /\ created' = created + 1
                /\ committed' = [committed EXCEPT ![campaign_id] = 0]
                /\ last' = [call EXCEPT !.ret = StorageGet(inserted, CreatedKey(counter2))]
                /\ UNCHANGED <<balances, rsvps>>
           ELSE /\ last' = [call EXCEPT !.err = err]
                /\ UNCHANGED <<events, event_id_counter, balances, created, rsvps, committed>>

CreateEvent ==
    \E sender \in Senders, capacity \in Capacities, price \in Deposits, event_name \in Names :
        /\ create_event(sender, capacity, price, event_name)
        /\ UNCHANGED <<paid, loading, handlers>>

\* ------------------------------------------------------------------- rsvp
\* require(selected_event.unique_id < storage.event_id_counter, InvalidEventID)
RequireValidId(selected_event, event_id, counter) == selected_event.unique_id < counter

RequireAsset_any(asset_id) == TRUE

\* require(asset_id == BASE_ASSET_ID, IncorrectAssetId)
RequireAsset(asset_id) == asset_id = BASE_ASSET_ID

RequireAmount_any(amount, selected_event) == TRUE

RequireAmount_capped(amount, selected_event) ==
    /\ amount >= selected_event.deposit
    /\ selected_event.num_of_rsvps < selected_event.max_capacity

RequireAmount_below(amount, selected_event) == amount + 1 >= selected_event.deposit

\* require(amount >= selected_event.deposit, NotEnoughTokens)
RequireAmount(amount, selected_event) == amount >= selected_event.deposit

TransferReverts_ignored(transferOk) == FALSE

\* transfer(...) reverts the transaction when the VM cannot make the output
TransferReverts(transferOk) == ~transferOk

RsvpError(sender, event_id, asset_id, amount, transferOk) ==
    LET selected_event == StorageGet(events, event_id)
    IN  IF ~SenderResolves(sender) THEN ErrAuth
        ELSE IF ~RequireValidId(selected_event, event_id, event_id_counter)
             THEN ErrInvalidEventID
        ELSE IF ~RequireAsset(asset_id) THEN ErrIncorrectAssetId
        ELSE IF ~RequireAmount(amount, selected_event) THEN ErrNotEnoughTokens
        ELSE IF TransferReverts(transferOk) THEN ErrTransferFailed
        ELSE ErrNone

\* The call forwards `amount` of the sender's coins to the contract.
Forward(bal, sender, amount) ==
    [bal EXCEPT ![sender] = @ - amount, ![ContractSelf] = @ + amount]

TransferAmount_deposit(amount, selected_event) == selected_event.deposit

\* the amount rsvp hands to transfer: msg_amount()
TransferAmount(amount, selected_event) == amount

Transfer_credit_only(bal, amount, to, transferOk) ==
    IF transferOk THEN [bal EXCEPT ![to] = @ + amount] ELSE bal

\* transfer(amount, asset_id, to): out of the contract's balance, to `to`;
\* a transfer the VM could not make moves nothing.
Transfer(bal, amount, to, transferOk) ==
    IF transferOk
    THEN [h \in DOMAIN bal |->
            bal[h] + (IF h = to THEN amount ELSE 0) - (IF h = ContractSelf THEN amount ELSE 0)]
    ELSE bal

RsvpUpdated_fresh(selected_event) ==
    [ZeroEvent EXCEPT !.num_of_rsvps = selected_event.num_of_rsvps + 1]

RsvpUpdated_stale(selected_event) ==
    [selected_event EXCEPT !.num_of_rsvps = 1]

RsvpUpdated_twice(selected_event) ==
    [selected_event EXCEPT !.num_of_rsvps = @ + 2]

\* selected_event.num_of_rsvps += 1
RsvpUpdated(selected_event) ==
    [selected_event EXCEPT !.num_of_rsvps = @ + 1]

rsvp(sender, event_id, asset_id, amount, transferOk) ==
    LET selected_event == StorageGet(events, event_id)
        err == RsvpError(sender, event_id, asset_id, amount, transferOk)
        updated == RsvpUpdated(selected_event)
        call == [NoCall EXCEPT !.op = "rsvp", !.sender = sender, !.event_id = event_id,
                    !.asset_id = asset_id, !.amount = amount]
    IN  /\ Idle
        /\ (sender \in Identities /\ asset_id = BASE_ASSET_ID) => balances[sender] >= amount
        /\ IF err = ErrNone
           THEN /\ rsvps < MaxRsvps
                /\ balances' = Transfer(Forward(balances, sender, amount),
                                        TransferAmount(amount, selected_event),
                                        selected_event.owner, transferOk)
                /\ events' = StorageInsert(events, event_id, updated)
                /\ rsvps' = rsvps + 1
                /\ committed' = [committed EXCEPT ![event_id] = @ + 1]
                /\ last' = [call EXCEPT !.ret = updated]
                /\ UNCHANGED <<event_id_counter, created>>
           ELSE /\ last' = [call EXCEPT !.err = err]
                /\ UNCHANGED <<events, event_id_counter, balances, created, rsvps, committed>>

Rsvp ==
    \E sender \in Senders, event_id \in EventIds, asset_id \in Assets,
       amount \in Amounts, transferOk \in BOOLEAN :
        /\ rsvp(sender, event_id, asset_id, amount, transferOk)
        /\ UNCHANGED <<paid, loading, handlers>>

\* --------------------------------------------------------------- get_rsvp
get_rsvp_marks(event_id) ==
    /\ Idle
    /\ last' = [NoCall EXCEPT !.op = "get_rsvp", !.event_id = event_id,
                   !.ret = StorageGet(events, event_id)]
    /\ events' = StorageInsert(events, event_id, StorageGet(events, event_id))
    /\ UNCHANGED <<event_id_counter, balances, created, rsvps, committed>>

get_rsvp(event_id) ==
    /\ Idle
    /\ last' = [NoCall EXCEPT !.op = "get_rsvp", !.event_id = event_id,
                   !.ret = StorageGet(events, event_id)]
    /\ UNCHANGED <<events, event_id_counter, balances, created, rsvps, committed>>

GetRsvp ==
    \E event_id \in EventIds :
        /\ get_rsvp(event_id)
        /\ UNCHANGED <<paid, loading, handlers>>

\* ----------------------------------------------------------------- return
\* The caller takes the result of its call (the client's `await ... .call()`).
Return ==
    /\ ~Idle
    /\ last' = NoCall
    /\ UNCHANGED <<events, event_id_counter, balances, created, rsvps, committed>>
    /\ UNCHANGED <<paid, loading, handlers>>

\* ---------------------------------------------------------- specification
Next == CreateEvent \/ Rsvp \/ GetRsvp \/ Return

Spec == Init /\ [][Next]_vars

\* ------------------------------------------------- payments to the owners
\* The same contract with the history `paid` kept.  The callers here are
\* resolved identities attaching the base asset to calls whose transfer the
\* VM can make: a call with an unresolved sender, another asset or a failing
\* transfer reverts and leaves storage and balances as they were, so these
\* callers reach every storage and balance state the contract can be in.

\* rsvp on event_id committed: what line 222 transferred is added to the key
PaidAfterRsvp(event_id, amount) ==
    IF last'.err = ErrNone
    THEN [paid EXCEPT ![event_id] =
            @ + TransferAmount(amount, StorageGet(events, event_id))]
    ELSE paid

\* create_event committed: a new record under its key, nothing paid on it yet
PaidAfterCreate ==
    IF last'.err = ErrNone
    THEN [paid EXCEPT ![CampaignId(event_id_counter)] = 0]
    ELSE paid

CreateEventPaid ==
    \E sender \in Identities, capacity \in Capacities, price \in Deposits,
       event_name \in Names :
        /\ create_event(sender, capacity, price, event_name)
        /\ paid' = PaidAfterCreate
        /\ UNCHANGED <<loading, handlers>>

RsvpPaid ==
    \E sender \in Identities, event_id \in EventIds, amount \in Amounts :
        /\ rsvp(sender, event_id, BASE_ASSET_ID, amount, TRUE)
        /\ paid' = PaidAfterRsvp(event_id, amount)
        /\ UNCHANGED <<loading, handlers>>

NextPaid == CreateEventPaid \/ RsvpPaid \/ Return

SpecPaid == Init /\ [][NextPaid]_vars

\* ------------------------------------------------------------- the client
\* The React client (frontend/src/App.tsx): one wallet, one `loading` state
\* shared by its two handlers.  An invocation of a handler runs up to its
\* first `await`, and resumes when the awaited call has settled; other
\* invocations, and other callers' transactions, run in between.

\* the identity of the client's wallet (WALLET_SECRET)
Wallet == "alice"

\* BN.toString(): the decimal digits of n, most significant first
RECURSIVE BNToString(_)
BNToString(n) ==
    IF n < 10 THEN <<n>> ELSE Append(BNToString(n \div 10), n % 10)

\* the amount the SDK reads from the decimal string given to `forward`
RECURSIVE BNFromString(_)
BNFromString(str) ==
    IF Len(str) = 0 THEN 0
    ELSE 10 * BNFromString(SubSeq(str, 1, Len(str) - 1)) + str[Len(str)]

\* the slot a new invocation takes: the lowest free one
FreeSlot(h) ==
    /\ handlers[h] = NoHandler
    /\ \A g \in 1..MaxHandlers : g < h => handlers[g] # NoHandler

RegistryUnchanged ==
    UNCHANGED <<events, event_id_counter, balances, created, rsvps, committed, last>>

\* The form is submitted (its button is `disabled={loading}`): createEvent
\* runs to its await of create_event(...).call().
createEvent(h) ==
    /\ ~loading
    /\ FreeSlot(h)
    /\ loading' = TRUE
    /\ handlers' = [handlers EXCEPT ![h] =
                        [NoHandler EXCEPT !.fn = "createEvent", !.pc = "create_event"]]
    /\ RegistryUnchanged /\ UNCHANGED paid

\* The create_event transaction of invocation h executes and returns.
createEventCall(h, capacity, price, event_name) ==
    /\ handlers[h].fn = "createEvent" /\ handlers[h].pc = "create_event"
    /\ create_event(Wallet, capacity, price, event_name)
    /\ handlers' = [handlers EXCEPT ![h].pc = "finally"]
    /\ UNCHANGED <<paid, loading>>

\* The awaited call rejects without a transaction (the node is unreachable,
\* the wallet cannot fund the call): control goes to catch.
createEventThrows(h) ==
    /\ handlers[h].fn = "createEvent" /\ handlers[h].pc = "create_event"
    /\ handlers' = [handlers EXCEPT ![h].pc = "finally"]
    /\ RegistryUnchanged /\ UNCHANGED <<paid, loading>>

\* finally { setLoading(false) }
createEventFinally(h) ==
    /\ handlers[h].fn = "createEvent" /\ handlers[h].pc = "finally"
    /\ loading' = FALSE
    /\ handlers' = [handlers EXCEPT ![h] = NoHandler]
    /\ RegistryUnchanged /\ UNCHANGED paid

\* The RSVP button is clicked (it is never disabled): rsvpToEvent runs to its
\* await of get_rsvp(eventId).get().
rsvpToEvent(h, eventId) ==
    /\ FreeSlot(h)
    /\ loading' = TRUE
    /\ handlers' = [handlers EXCEPT ![h] =
                        [NoHandler EXCEPT !.fn = "rsvpToEvent", !.pc = "get_rsvp",
                                          !.eventId = eventId]]
    /\ RegistryUnchanged /\ UNCHANGED paid

\* The read returns; the handler takes the deposit as a string and runs to
\* its await of rsvp(eventId)...call().
rsvpToEventRead(h) ==
    /\ handlers[h].fn = "rsvpToEvent" /\ handlers[h].pc = "get_rsvp"
    /\ get_rsvp(handlers[h].eventId)
    /\ handlers' = [handlers EXCEPT ![h].pc = "rsvp",
                        ![h].requiredAmountToRSVP = BNToString(last'.ret.deposit)]
    /\ UNCHANGED <<paid, loading>>

\* The rsvp transaction of invocation h executes and returns: it forwards
\* the amount read, in the base asset, with one variable output.
rsvpToEventCall(h) ==
    /\ handlers[h].fn = "rsvpToEvent" /\ handlers[h].pc = "rsvp"
    /\ rsvp(Wallet, handlers[h].eventId, BASE_ASSET_ID,
            BNFromString(handlers[h].requiredAmountToRSVP), TRUE)
    /\ handlers' = [handlers EXCEPT ![h].pc = "finally"]
    /\ UNCHANGED <<paid, loading>>

\* One of the two awaited calls rejects without a transaction.
rsvpToEventThrows(h) ==
    /\ handlers[h].fn = "rsvpToEvent" /\ handlers[h].pc \in {"get_rsvp", "rsvp"}
    /\ handlers' = [handlers EXCEPT ![h].pc = "finally"]
    /\ RegistryUnchanged /\ UNCHANGED <<paid, loading>>

\* finally { setLoading(false) }
rsvpToEventFinally(h) ==
    /\ handlers[h].fn = "rsvpToEvent" /\ handlers[h].pc = "finally"
    /\ loading' = FALSE
    /\ handlers' = [handlers EXCEPT ![h] = NoHandler]
    /\ RegistryUnchanged /\ UNCHANGED paid

\* Transactions of the other callers of the same contract.
OtherCreateEvent ==
    \E sender \in Identities \ {Wallet}, capacity \in Capacities, price \in Deposits,
       event_name \in Names :
        /\ create_event(sender, capacity, price, event_name)
        /\ UNCHANGED <<paid, loading, handlers>>

OtherRsvp ==
    \E sender \in Identities \ {Wallet}, event_id \in EventIds, amount \in Amounts :
        /\ rsvp(sender, event_id, BASE_ASSET_ID, amount, TRUE)
        /\ UNCHANGED <<paid, loading, handlers>>

CreateEventHandler ==
    \E h \in 1..MaxHandlers :
        \/ createEvent(h)
        \/ \E capacity \in Capacities, price \in Deposits, event_name \in Names :
                createEventCall(h, capacity, price, event_name)
        \/ createEventThrows(h)
        \/ createEventFinally(h)

RsvpToEventHandler ==
    \E h \in 1..MaxHandlers :
        \/ \E eventId \in EventIds : rsvpToEvent(h, eventId)
        \/ rsvpToEventRead(h)
        \/ rsvpToEventCall(h)
        \/ rsvpToEventThrows(h)
        \/ rsvpToEventFinally(h)

NextClient ==
    CreateEventHandler \/ RsvpToEventHandler \/ OtherCreateEvent \/ OtherRsvp \/ Return

SpecClient == Init /\ [][NextClient]_vars

\* ------------------------------------------------------------ observations
RsvpReturned == last.op = "rsvp"
RsvpOk == last.op = "rsvp" /\ last.err = ErrNone
RsvpOkNext == last'.op = "rsvp" /\ last'.err = ErrNone
CreateOk == last.op = "create_event" /\ last.err = ErrNone
StorageUnchanged == UNCHANGED <<events, event_id_counter, balances>>

\* the sum of the balances of the holders in hs
RECURSIVE SumBalances(_, _)
SumBalances(bal, hs) ==
    IF hs = {} THEN 0
    ELSE LET h == CHOOSE x \in hs : TRUE
         IN  bal[h] + SumBalances(bal, hs \ {h})

\* ------------------------------------------------------------------ claims

\* C1: rsvp with an event_id that was never issued (event_id >= the counter)
\* is rejected (the claim: with InvalidEventID) and changes nothing; at the
\* least, no such call commits.
C1_NeverIssuedIdRejected ==
    (RsvpReturned /\ last.event_id >= event_id_counter) => last.err # ErrNone

\* C2: the keys of `events` are exactly 0 .. event_id_counter - 1.
C2_KeysAreIssuedIds == DOMAIN events = 0..(event_id_counter - 1)

\* C3: the k-th create_event that commits (counting from 0) returns a record
\* whose unique_id is k, whatever other calls are interleaved.
C3_IdsInCallOrder == CreateOk => last.ret.unique_id = created - 1

C3_Witness == CreateOk /\ last.ret.unique_id = 1 /\ rsvps >= 1

\* C4: event_id_counter starts at 0, always equals the number of committed
\* create_event calls, never goes down, and only a committed create_event
\* changes it (by one).
C4_CounterCountsCreates ==
    /\ event_id_counter = 0
    /\ [](event_id_counter = created)
    /\ [][/\ event_id_counter' >= event_id_counter
          /\ event_id_counter' # event_id_counter =>
                /\ last'.op = "create_event" /\ last'.err = ErrNone
                /\ event_id_counter' = event_id_counter + 1]_vars

C4_Witness == event_id_counter = 2 /\ RsvpOk

\* C5 as stated: rsvp on an existing event with the base asset and an amount
\* below the record's deposit fails with NotEnoughTokens.
C5_Original ==
    (/\ RsvpReturned /\ last.event_id \in DOMAIN events
     /\ last.asset_id = BASE_ASSET_ID
     /\ last.amount < StorageGet(events, last.event_id).deposit)
        => last.err = ErrNotEnoughTokens

\* C5 amended: such a call fails and changes neither the registry nor any
\* balance; the failure is NotEnoughTokens when the caller's identity resolves
\* and the revert of msg_sender().unwrap() when it does not.
C5_Underpaid ==
    [][(/\ last'.op = "rsvp" /\ last'.event_id \in DOMAIN events
        /\ last'.asset_id = BASE_ASSET_ID
        /\ last'.amount < StorageGet(events, last'.event_id).deposit)
          => /\ last'.err = IF SenderResolves(last'.sender)
                            THEN ErrNotEnoughTokens ELSE ErrAuth
             /\ StorageUnchanged]_vars

C5_Witness ==
    /\ RsvpReturned /\ last.err = ErrNotEnoughTokens
    /\ StorageGet(events, last.event_id).num_of_rsvps = 1

\* C6 as stated: rsvp on an existing event with an asset other than the base
\* asset fails with IncorrectAssetId, whatever the amount.
C6_Original ==
    (/\ RsvpReturned /\ last.event_id \in DOMAIN events
     /\ last.asset_id # BASE_ASSET_ID)
        => last.err = ErrIncorrectAssetId

\* C6 amended: such a call fails and changes neither the registry nor any
\* balance; the failure is IncorrectAssetId when the caller's identity
\* resolves and the revert of msg_sender().unwrap() when it does not.
C6_WrongAsset ==
    [][(/\ last'.op = "rsvp" /\ last'.event_id \in DOMAIN events
        /\ last'.asset_id # BASE_ASSET_ID)
          => /\ last'.err = IF SenderResolves(last'.sender)
                            THEN ErrIncorrectAssetId ELSE ErrAuth
             /\ StorageUnchanged]_vars

C6_Witness ==
    /\ RsvpReturned /\ last.err = ErrIncorrectAssetId
    /\ last.amount >= StorageGet(events, last.event_id).deposit
    /\ StorageGet(events, last.event_id).deposit > 0

\* C7: a committed rsvp(event_id) raises the num_of_rsvps stored under
\* event_id by exactly 1 and returns the record then stored under event_id.
C7_CountsOne ==
    [][RsvpOkNext =>
        /\ last'.event_id \in DOMAIN events'
        /\ events'[last'.event_id].num_of_rsvps
              = StorageGet(events, last'.event_id).num_of_rsvps + 1
        /\ last'.ret = events'[last'.event_id]]_vars

C7_Witness == RsvpOk /\ last.ret.num_of_rsvps = 2 /\ last.event_id < event_id_counter

\* C8: the num_of_rsvps stored under a key never decreases.
C8_CountNeverDecreases ==
    [][\A k \in DOMAIN events :
          StorageGet(events', k).num_of_rsvps >= events[k].num_of_rsvps]_vars

\* What rsvp(event_id) by `sender` with `amount` attached does to holder h's
\* balance when the whole amount goes to the record's owner.
PaidOut(h, sender, owner, amount) ==
    (IF h = owner THEN amount ELSE 0) - (IF h = sender THEN amount ELSE 0)

\* C9 as stated: on a committed rsvp the owner's balance grows by exactly the
\* attached amount and nobody else's balance grows.
C9_Original ==
    [][RsvpOkNext =>
        LET owner == StorageGet(events, last'.event_id).owner
        IN  /\ balances'[owner] = balances[owner] + last'.amount
            /\ \A h \in Holders \ {owner} : balances'[h] <= balances[h]]_vars

\* C9 amended: on a committed rsvp the whole attached amount goes to the
\* record's owner: the owner's balance grows by exactly the amount when the
\* caller is someone else and is unchanged when the owner is the caller (it
\* pays and receives the amount); the caller's balance falls by the amount
\* and no other balance changes.
C9_WholeAmountToOwner ==
    [][RsvpOkNext =>
        LET owner == StorageGet(events, last'.event_id).owner
        IN  \A h \in Holders :
              balances'[h] = balances[h] + PaidOut(h, last'.sender, owner, last'.amount)]_vars

C9_Witness ==
    /\ RsvpOk /\ last.sender # last.ret.owner
    /\ last.ret.deposit > 0 /\ last.amount > last.ret.deposit
    /\ balances[last.ret.owner] = InitBalance + last.amount

\* C10: rsvp is atomic with respect to the transfer: a failed transfer leaves
\* storage and balances as they were; a step raises a stored count only if in
\* that step the record's owner was paid the attached amount; and balances
\* move only in a step that raises a count by one.
C10_TransferAtomic ==
    [][/\ last'.err = ErrTransferFailed => StorageUnchanged
       /\ \A k \in EventIds :
            StorageGet(events', k).num_of_rsvps > StorageGet(events, k).num_of_rsvps
              => /\ RsvpOkNext /\ last'.event_id = k
                 /\ \A h \in Holders :
                      balances'[h] = balances[h]
                          + PaidOut(h, last'.sender, StorageGet(events, k).owner, last'.amount)
       /\ balances' # balances
              => /\ RsvpOkNext
                 /\ events'[last'.event_id].num_of_rsvps
                      = StorageGet(events, last'.event_id).num_of_rsvps + 1]_vars

C10_Witness == RsvpReturned /\ last.err = ErrTransferFailed /\ last.amount > 0

CreateOkNext == last'.op = "create_event" /\ last'.err = ErrNone

\* The fields of a record that are fixed at creation.
Identity4(ev) == <<ev.unique_id, ev.owner, ev.name, ev.deposit>>

\* C11: a key create_event has written (every key below the counter) keeps a
\* record for ever, and that record's unique_id, owner, name and deposit are
\* the same after every step.
C11_CreatedRecordsKeep ==
    [][\A k \in 0..(event_id_counter - 1) :
          /\ k \in DOMAIN events /\ k \in DOMAIN events'
          /\ Identity4(events'[k]) = Identity4(events[k])]_vars

C11_Witness ==
    /\ RsvpOk /\ last.event_id = 0 /\ event_id_counter = 2
    /\ events[0].num_of_rsvps = 2 /\ events[0].owner \in Identities

\* C12: a create_event(capacity, price, name) that commits in a state with
\* counter n stores under key n, and returns, the record {unique_id: n,
\* max_capacity: capacity, deposit: price, owner: the caller, name,
\* num_of_rsvps: 0}, and leaves the counter at n + 1.
C12_CreateStoresAndReturns ==
    [][CreateOkNext =>
        LET n == event_id_counter
            rec == [unique_id |-> n, max_capacity |-> last'.capacity,
                    deposit |-> last'.price, owner |-> last'.sender,
                    name |-> last'.name, num_of_rsvps |-> 0]
        IN  /\ n \in DOMAIN events' /\ events'[n] = rec
            /\ last'.ret = rec
            /\ event_id_counter' = n + 1]_vars

C12_Witness ==
    /\ CreateOk /\ last.ret.unique_id = 1 /\ last.ret.deposit = 0
    /\ last.ret.owner = "bob" /\ events[0].owner = "alice"

\* C13 as stated: create_event has no failure condition: every call succeeds.
C13_Original == last.op = "create_event" => last.err = ErrNone

\* C13 amended: create_event succeeds exactly when the caller's identity
\* resolves and the counter is below its largest value; otherwise it reverts
\* and changes nothing.
C13_CreateSucceedsUnless ==
    [][last'.op = "create_event" =>
        LET ok == SenderResolves(last'.sender) /\ event_id_counter < CounterMax
        IN  /\ last'.err = ErrNone <=> ok
            /\ ~ok => StorageUnchanged]_vars

C13_Witness ==
    /\ CreateOk /\ event_id_counter = CounterMax /\ rsvps >= 1
    /\ last.ret.unique_id = CounterMax - 1

\* C14: get_rsvp(event_id) changes neither `events`, the counter nor any
\* balance, for every event_id; for an issued id it returns the record stored
\* under event_id.
C14_GetRsvpPure ==
    [][last'.op = "get_rsvp" =>
        /\ StorageUnchanged
        /\ last'.err = ErrNone
        /\ last'.event_id < event_id_counter => last'.ret = events[last'.event_id]]_vars

C14_Witness ==
    /\ last.op = "get_rsvp" /\ last.event_id < event_id_counter
    /\ last.ret.num_of_rsvps = 1 /\ last.ret.owner \in Identities

\* What get_rsvp(k) returns when called in the current state.
GetRsvpValue(k) == StorageGet(events, k)

\* C15 as stated: for every event_id, whatever happens between two
\* get_rsvp(event_id) calls other than a committed rsvp (create_event
\* included), both return the same: no such step changes what get_rsvp returns.
C15_Original ==
    [][~RsvpOkNext => \A k \in EventIds : GetRsvpValue(k)' = GetRsvpValue(k)]_vars

\* C15 amended: get_rsvp(event_id) returns the value the key holds, and no
\* step other than a committed rsvp changes that value for an id already
\* issued; for an id not yet issued, no step other than a committed rsvp or a
\* committed create_event changes it.
C15_ReadsRepeat ==
    [][/\ last'.op = "get_rsvp" => last'.ret = GetRsvpValue(last'.event_id)
       /\ ~RsvpOkNext =>
            \A k \in EventIds :
                (k < event_id_counter \/ ~CreateOkNext)
                    => GetRsvpValue(k)' = GetRsvpValue(k)]_vars

C15_Witness ==
    /\ last.op = "get_rsvp" /\ last.event_id = 0 /\ event_id_counter = 2
    /\ last.ret.num_of_rsvps = 1 /\ last.ret.unique_id = 0

\* C16: rsvp calls on one key lose no update, in whatever order the calls of
\* the callers commit: the count stored under a key is the number of rsvp
\* calls committed on its record, and the j-th of them returns count j (so
\* the returned counts are pairwise distinct).
C16_NoLostUpdate ==
    /\ \A k \in EventIds : StorageGet(events, k).num_of_rsvps = committed[k]
    /\ RsvpOk => last.ret.num_of_rsvps = committed[last.event_id]

C16_Witness ==
    /\ RsvpOk /\ last.event_id = 0 /\ event_id_counter >= 1
    /\ committed[0] = 2 /\ last.ret.num_of_rsvps = 2

RsvpPayable ==
    /\ RsvpReturned /\ last.event_id \in DOMAIN events
    /\ last.asset_id = BASE_ASSET_ID
    /\ last.amount >= StorageGet(events, last.event_id).deposit

\* C17 as stated: rsvp on an existing event with the base asset and an amount
\* of at least the deposit succeeds in every reachable state.
C17_Original == RsvpPayable => last.err = ErrNone

\* C17 amended: such a call is never refused for capacity: it fails only by
\* the revert of msg_sender().unwrap(), exactly when the caller's identity
\* does not resolve, or by the transfer reverting; otherwise it commits, also
\* when num_of_rsvps has reached or passed max_capacity.
C17_NeverCapped ==
    RsvpPayable =>
        /\ last.err \in {ErrNone, ErrTransferFailed, ErrAuth}
        /\ last.err = ErrAuth <=> ~SenderResolves(last.sender)

C17_Witness ==
    /\ RsvpOk /\ last.event_id < event_id_counter
    /\ last.ret.max_capacity > 0 /\ last.ret.num_of_rsvps > last.ret.max_capacity

\* C18: rsvp reports the first violated precondition in the order issued id,
\* base asset, sufficient amount: a never-issued id with a wrong asset yields
\* InvalidEventID, and a wrong asset on an issued id yields IncorrectAssetId
\* whatever the amount.  (Stated for callers whose identity resolves.)
C18_CheckOrder ==
    (RsvpReturned /\ SenderResolves(last.sender) /\ last.asset_id # BASE_ASSET_ID)
        => last.err = IF last.event_id >= event_id_counter
                      THEN ErrInvalidEventID ELSE ErrIncorrectAssetId

\* The fields of a record other than num_of_rsvps.
AllButCount(ev) ==
    <<ev.unique_id, ev.max_capacity, ev.deposit, ev.owner, ev.name>>

\* C19: a committed rsvp(event_id) leaves every record under another key
\* unchanged and changes nothing but num_of_rsvps in the record under
\* event_id; a committed create_event leaves every record already stored
\* unchanged.
C19_OnlyCountMutates ==
    [][/\ RsvpOkNext =>
            \A k \in DOMAIN events :
                IF k = last'.event_id
                THEN AllButCount(events'[k]) = AllButCount(events[k])
                ELSE events'[k] = events[k]
       /\ CreateOkNext => \A k \in DOMAIN events : events'[k] = events[k]]_vars

\* C20: every record in `events` is stored under its own unique_id.
C20_StoredUnderOwnId == \A k \in DOMAIN events : events[k].unique_id = k

\* C21: in every reachable state, for every stored record, the total that
\* rsvp calls on that record transferred to its owner is at least
\* deposit * num_of_rsvps: no rsvp is counted without the deposit paid.
C21_DepositsPaid ==
    \A k \in DOMAIN events : paid[k] >= events[k].deposit * events[k].num_of_rsvps

\* two rsvps counted on a record with deposit 1, one of them overpaid
C21_Witness ==
    /\ 0 \in DOMAIN events /\ events[0].deposit = 1
    /\ events[0].num_of_rsvps = 2 /\ paid[0] = 3

\* C22: the contract keeps no funds: its own balance is always its initial
\* balance (0), and the sum of all balances is the initial sum.
C22_RetainsNoFunds ==
    /\ balances[ContractSelf] = 0
    /\ SumBalances(balances, Holders) = InitBalance * Cardinality(Identities)

\* after a committed rsvp that attached more than the deposit of another
\* identity's event
C22_Witness ==
    /\ RsvpOk /\ last.amount = 2 /\ last.ret.deposit = 1
    /\ last.ret.owner \in Identities \ {last.sender}
    /\ balances[ContractSelf] = 0

\* C23: in the client's rsvpToEvent the amount forwarded is the deposit read
\* by the preceding get_rsvp of the same event id, and it still covers the
\* deposit of the record rsvp reads: the client's rsvp transaction never
\* fails with NotEnoughTokens, whatever other callers' create_event and
\* rsvp transactions run between the read and the call.  (Stated for the
\* runs in which every stored record was written by other callers.)
C23_NeverNotEnoughTokens ==
    (/\ last.op = "rsvp" /\ last.sender = Wallet
     /\ \A k \in DOMAIN events : events[k].owner # Wallet)
    => last.err # ErrNotEnoughTokens

\* the createEvent invocations whose create_event call is in flight
CreateEventInFlight ==
    {h \in 1..MaxHandlers :
        handlers[h].fn = "createEvent" /\ handlers[h].pc = "create_event"}

\* C24: `loading` is true whenever a create_event call started by
\* createEvent is in flight, so at most one such call is in flight at a
\* time; and `loading` is false once no handler is in flight.
C24_LoadingGuardsCreate ==
    /\ CreateEventInFlight # {} => loading
    /\ Cardinality(CreateEventInFlight) <= 1
    /\ (\A h \in 1..MaxHandlers : handlers[h] = NoHandler) => ~loading

====
